---- MODULE Spec2Model ----
(***************************************************************************)
(* The reactive state-and-synchronisation layer of the PendingChangesBot   *)
(* review page (the Vue setup() function): application state, the          *)
(* preference store, the sort engine, the form bridge, the API gateway,    *)
(* the pending-set synchroniser with its revision backfill, refresh,       *)
(* clearCache and saveConfiguration.                                       *)
(*                                                                         *)
(* JavaScript runs the code between two awaits without interruption, and   *)
(* the microtasks that follow the settling of a fetch run before the next  *)
(* event or network response is handled.  One action is therefore one      *)
(* event handler or one settling of a request together with every          *)
(* continuation it wakes.  A response and the decoding of its body         *)
(* (response.json()) are one step: nothing is written between the two.     *)
(***************************************************************************)
EXTENDS Integers, Sequences, FiniteSets, TLC

VARIABLES
    wikis,            \* state.wikis: sequence of [id, configuration]
    selectedWikiId,   \* state.selectedWikiId (NoWiki stands for "")
    sortOrder,        \* state.sortOrder
    pages,            \* state.pages
    loading,          \* state.loading
    error,            \* state.error
    configurationOpen,\* state.configurationOpen
    forms,            \* forms.blockingCategories, forms.autoApprovedGroups
    storage,          \* window.localStorage: key -> stored string or NoItem
    storageWorks,     \* FALSE: every localStorage access throws
    ops,              \* the asynchronous operations in flight, in issue order
    settled,          \* the promise of the operation that ended last: which
                      \* async function returned it, fulfilled or rejected
    session           \* how many times the page has been loaded again

vars == <<wikis, selectedWikiId, sortOrder, pages, loading, error,
          configurationOpen, forms, storage, storageWorks, ops, settled,
          session>>

(***************************************************************************)
(* Bounds of the model.                                                    *)
(***************************************************************************)
\* at most this many asynchronous operations are in flight at once
MaxOps == 2

\* the page is loaded again at most this many times
MaxSessions == 2

(***************************************************************************)
(* Values.                                                                 *)
(***************************************************************************)
\* the empty selectedWikiId "" (falsy, like no id the backend hands out)
NoWiki == 0

\* localStorage.getItem of a missing key: null
NoItem == "<null>"

\* a page without a pending_since field
Absent == ""

\* a text is a sequence of characters; NL is "\n", SP a blank
NL == "\n"
SP == " "

(***************************************************************************)
(* Configuration Form Bridge: text <-> sequence of lines.                  *)
(***************************************************************************)
IsWhitespace(c) == c \in {SP, NL}

\* String.prototype.split("\n")
RECURSIVE Split(_)
Split(text) ==
    IF \A k \in 1..Len(text) : text[k] # NL
    THEN <<text>>
    ELSE LET k == CHOOSE i \in 1..Len(text) :
                      /\ text[i] = NL
                      /\ \A j \in 1..(i - 1) : text[j] # NL
         IN  <<SubSeq(text, 1, k - 1)>> \o Split(SubSeq(text, k + 1, Len(text)))

RECURSIVE TrimStart(_)
TrimStart(line) ==
    IF line # <<>> /\ IsWhitespace(Head(line)) THEN TrimStart(Tail(line)) ELSE line

RECURSIVE TrimEnd(_)
TrimEnd(line) ==
    IF line # <<>> /\ IsWhitespace(line[Len(line)])
    THEN TrimEnd(SubSeq(line, 1, Len(line) - 1))
    ELSE line

\* String.prototype.trim()
Trim(line) == TrimEnd(TrimStart(line))

\* parseTextarea(value): split on newlines, trim, drop the empty lines
ParseTextarea(value) ==
    LET lines   == Split(value)
        trimmed == [k \in 1..Len(lines) |-> Trim(lines[k])]
    IN  SelectSeq(trimmed, LAMBDA line : Len(line) > 0)

\* Array.prototype.join("\n")
RECURSIVE Join(_)
Join(lines) ==
    IF lines = <<>> THEN <<>>
    ELSE IF Len(lines) = 1 THEN lines[1]
    ELSE lines[1] \o <<NL>> \o Join(Tail(lines))

(***************************************************************************)
(* Sort Engine.                                                            *)
(***************************************************************************)
\* new Date(value).getTime(): days since the epoch stand for the
\* milliseconds (same order); any other text is an invalid date (NaN)
DateGetTime(value) ==
    CASE value = "2024-01-15" -> [nan |-> FALSE, time |-> 19737]
      [] value = "2024-02-10" -> [nan |-> FALSE, time |-> 19763]
      [] value = "2024-03-01" -> [nan |-> FALSE, time |-> 19783]
      [] OTHER                -> [nan |-> TRUE,  time |-> 0]

\* getPendingTimestamp(page)
GetPendingTimestamp(page) ==
    IF page.pending_since = Absent
    THEN 0
    ELSE LET timestamp == DateGetTime(page.pending_since)
         IN  IF timestamp.nan THEN 0 ELSE timestamp.time

\* mutant: the comparator ignores the order
ComparePagesAscending(first, second, order) ==
    GetPendingTimestamp(first) - GetPendingTimestamp(second)

\* the comparator handed to Array.prototype.sort
ComparePages(first, second, order) ==
    LET firstTimestamp  == GetPendingTimestamp(first)
        secondTimestamp == GetPendingTimestamp(second)
    IN  IF order = "oldest"
        THEN firstTimestamp - secondTimestamp
        ELSE secondTimestamp - firstTimestamp

\* Array.prototype.sort is stable: an element goes behind every element
\* that does not compare greater than it
RECURSIVE InsertPage(_, _, _)
InsertPage(sorted, page, order) ==
    IF sorted = <<>> THEN <<page>>
    ELSE IF ComparePages(Head(sorted), page, order) <= 0
    THEN <<Head(sorted)>> \o InsertPage(Tail(sorted), page, order)
    ELSE <<page>> \o sorted

RECURSIVE StableSort(_, _)
StableSort(list, order) ==
    IF list = <<>> THEN <<>>
    ELSE InsertPage(StableSort(SubSeq(list, 1, Len(list) - 1), order),
                    list[Len(list)], order)

Swap(list, a, b) == [list EXCEPT ![a] = list[b], ![b] = list[a]]

\* the loop of shufflePages from position index down: every result the
\* choices of Math.random() can produce
RECURSIVE ShuffleFrom(_, _)
ShuffleFrom(shuffled, index) ==
    IF index <= 1 THEN {shuffled}
    ELSE UNION {ShuffleFrom(Swap(shuffled, index, swapIndex), index - 1) :
                    swapIndex \in 1..index}

\* shufflePages(pages): the set of its possible results
ShufflePages(list) == ShuffleFrom(list, Len(list))

\* sortPages(pages, order): the set of its possible results (one unless
\* the order is random); pages is always an array here
SortPages(list, order) ==
    IF order = "random" THEN ShufflePages(list) ELSE {StableSort(list, order)}

(***************************************************************************)
(* Preference Store.                                                       *)
(***************************************************************************)
configurationStorageKey == "configurationOpen"
selectedWikiStorageKey == "selectedWikiId"
sortOrderStorageKey == "pendingSortOrder"
StorageKeys == {configurationStorageKey, selectedWikiStorageKey, sortOrderStorageKey}

\* String(value) of a wiki id
IdToString(id) ==
    CASE id = 1 -> "1"
      [] id = 2 -> "2"
      [] id = 3 -> "3"
      [] OTHER  -> ""

\* Number(storedValue)
ToNumber(str) ==
    CASE str = "1"   -> [nan |-> FALSE, num |-> 1]
      [] str = "2"   -> [nan |-> FALSE, num |-> 2]
      [] str = "3"   -> [nan |-> FALSE, num |-> 3]
      [] str = "2.0" -> [nan |-> FALSE, num |-> 2]
      [] str = "7"   -> [nan |-> FALSE, num |-> 7]
      [] str = ""    -> [nan |-> FALSE, num |-> 0]
      [] OTHER       -> [nan |-> TRUE,  num |-> 0]

\* loadFromStorage(key) on store contents st
LoadFromStorage(st, works, key) == IF works THEN st[key] ELSE NoItem

\* saveToStorage(key, value): the store contents afterwards; value is
\* NoItem for null, else the string String(value)
SaveToStorage(st, works, key, value) ==
    IF works THEN [st EXCEPT ![key] = value] ELSE st

LoadConfigurationOpen(st, works) ==
    LoadFromStorage(st, works, configurationStorageKey) = "true"

PersistConfigurationOpen(st, works, value) ==
    SaveToStorage(st, works, configurationStorageKey,
                  IF value THEN "true" ELSE "false")

\* Array.prototype.find on the wiki sequence: the first match or NoWiki
RECURSIVE FindWikiId(_, _)
FindWikiId(list, parsedValue) ==
    IF list = <<>> THEN NoWiki
    ELSE IF Head(list).id = parsedValue THEN Head(list).id
    ELSE FindWikiId(Tail(list), parsedValue)

\* mutant: the stored id is trusted without looking it up in the wiki list
LoadSelectedWikiIdUnchecked(list, st, works) ==
    IF list = <<>> THEN NoWiki
    ELSE LET storedValue == LoadFromStorage(st, works, selectedWikiStorageKey)
         IN  IF storedValue = NoItem THEN list[1].id
             ELSE LET parsedValue == ToNumber(storedValue)
                  IN  IF parsedValue.nan THEN list[1].id ELSE parsedValue.num

LoadSelectedWikiId(list, st, works) ==
    IF list = <<>> THEN NoWiki
    ELSE LET storedValue == LoadFromStorage(st, works, selectedWikiStorageKey)
         IN  IF storedValue = NoItem THEN list[1].id
             ELSE LET parsedValue == ToNumber(storedValue)
                      matched == IF parsedValue.nan THEN NoWiki
                                 ELSE FindWikiId(list, parsedValue.num)
                  IN  IF matched # NoWiki THEN matched ELSE list[1].id

PersistSelectedWikiId(st, works, value) ==
    IF value = NoWiki
    THEN SaveToStorage(st, works, selectedWikiStorageKey, NoItem)
    ELSE SaveToStorage(st, works, selectedWikiStorageKey, IdToString(value))

LoadSortOrder(st, works) ==
    LET storedValue == LoadFromStorage(st, works, sortOrderStorageKey)
    IN  IF storedValue \in {"newest", "oldest", "random"}
        THEN storedValue
        ELSE "newest"

\* mutant: the order is saved under the key of the panel state
PersistSortOrderWrongKey(st, works, value) ==
    SaveToStorage(st, works, configurationStorageKey, value)

PersistSortOrder(st, works, value) ==
    SaveToStorage(st, works, sortOrderStorageKey, value)

(***************************************************************************)
(* The backend, as the API gateway sees it.                                *)
(***************************************************************************)
\* the wikis of the embedded initial-wikis document
InitialWikis ==
    << [id |-> 1,
        configuration |-> [blocking_categories  |-> << <<"A">> >>,
                           auto_approved_groups |-> << >>]],
       [id |-> 2,
        configuration |-> [blocking_categories  |-> << >>,
                           auto_approved_groups |-> << <<"B">> >>]] >>

\* pages of wiki w as /pending/ lists them; the wiki field stands for what
\* tells a page of one wiki from a page of another (its title, its ids).
\* A revisions field that is absent or no array is written <<>>: loadPending
\* reads both as the empty array.
PendingPage(w, pageid, since, revisions) ==
    [wiki |-> w, pageid |-> pageid, pending_since |-> since, revisions |-> revisions]

\* the values of data.pages || [] the backend may answer for wiki w
PendingAnswers(w) ==
    { << >>,
      << PendingPage(w, 3, "not-a-date", <<"r3">>) >>,
      << PendingPage(w, 1, "2024-01-15", << >>),
         PendingPage(w, 2, "2024-03-01", << >>),
         PendingPage(w, 3, "not-a-date", <<"r3">>) >> }

\* the values of data.revisions || [] the backend may answer for a page
RevisionsAnswers(pageid) ==
    IF pageid = 1 THEN { << "r1" >> } ELSE { << >>, << "r2" >> }

\* the configuration the backend answers to a PUT of payload
ConfigurationAnswers(payload) == { payload }

\* ways a request fails: fetch rejects (network), the response is not ok
\* (http, with its statusText and the error field of its JSON body, "" when
\* there is none), or response.json() rejects on an ok response (decode)
Failure(kind, message, statusText, bodyError) ==
    [kind |-> kind, message |-> message, statusText |-> statusText,
     bodyError |-> bodyError]

Failures ==
    { Failure("network", "Failed to fetch", "", ""),
      Failure("http", "", "", ""),
      Failure("decode", "Unexpected token", "", "") }

\* what apiRequest leaves in state.error for a failure
FailureMessage(f) ==
    IF f.kind = "http"
    THEN LET message == IF f.bodyError # "" THEN f.bodyError ELSE f.statusText
         IN  IF message # "" THEN message ELSE "Unknown error"
    ELSE IF f.message # "" THEN f.message ELSE "Request failed"

(***************************************************************************)
(* Derived state and the operations in flight.                             *)
(***************************************************************************)
\* Array.prototype.findIndex by id: the first index, 0 when there is none
WikiIndex(list, id) ==
    IF \E k \in 1..Len(list) : list[k].id = id
    THEN CHOOSE k \in 1..Len(list) :
             /\ list[k].id = id
             /\ \A j \in 1..(k - 1) : list[j].id # id
    ELSE 0

\* syncForms() for wiki sequence list and selection sel
SyncForms(list, sel) ==
    LET k == WikiIndex(list, sel)
    IN  IF k = 0
        THEN [blockingCategories |-> << >>, autoApprovedGroups |-> << >>]
        ELSE [blockingCategories |-> Join(list[k].configuration.blocking_categories),
              autoApprovedGroups |-> Join(list[k].configuration.auto_approved_groups)]

NoPayload == [blocking_categories |-> << >>, auto_approved_groups |-> << >>]

\* an operation in flight: kind is the async function, step the request it
\* awaits, wikiId the id in the request's URL (loadPending's captured
\* wikiId), inRefresh whether refresh awaits this loadPending, items the
\* pages of the pending answer with the state of each page's revisions
\* fetch, payload the body of a configuration PUT
Op(kind, step, wikiId, inRefresh, items, payload) ==
    [kind |-> kind, step |-> step, wikiId |-> wikiId, inRefresh |-> inRefresh,
     items |-> items, payload |-> payload]

Without(list, i) == SubSeq(list, 1, i - 1) \o SubSeq(list, i + 1, Len(list))

\* loadPending lines 214-218: a page with revisions keeps them and needs no
\* fetch; for a page without, fetchRevisionsForPage is called
ItemsOf(answer) ==
    [k \in 1..Len(answer) |->
        [page  |-> answer[k],
         fetch |-> IF Len(answer[k].revisions) = 0 THEN "waiting" ELSE "none"]]

\* pagesWithRevisions, once every item has settled
PagesWithRevisions(items) == [k \in 1..Len(items) |-> items[k].page]

AllSettled(items) == \A k \in 1..Len(items) : items[k].fetch # "waiting"

\* mutant: the commit is not guarded
StillSelectedAlways(wikiId) == TRUE

\* mutant: a sync also stands back while another sync for its wiki is in
\* flight
StillSelectedAndAlone(wikiId) ==
    /\ wikiId = selectedWikiId
    /\ Cardinality({i \in 1..Len(ops) :
                       ops[i].kind = "loadPending" /\ ops[i].wikiId = wikiId}) = 1

\* the guard of line 225
StillSelected(wikiId) == wikiId = selectedWikiId

(***************************************************************************)
(* The state after setup(): state and forms are built from the wiki list   *)
(* and the preference store, and the four immediate watchers have run      *)
(* (three persist a preference, the fourth runs syncForms and loadPending).*)
(***************************************************************************)
\* the promise an async function returned, once it has settled
Settled(kind, how) == [kind |-> kind, how |-> how]

EmptyStorage == [key \in StorageKeys |-> NoItem]

\* mutant: the currentWiki watcher is not immediate, so setup() starts no
\* sync and fills no form
SetupLazy(list, st, works) ==
    LET sel   == LoadSelectedWikiId(list, st, works)
        order == LoadSortOrder(st, works)
        open  == LoadConfigurationOpen(st, works)
        st1   == PersistConfigurationOpen(st, works, open)
        st2   == PersistSelectedWikiId(st1, works, sel)
        st3   == PersistSortOrder(st2, works, order)
    IN  [wikis |-> list, selectedWikiId |-> sel, sortOrder |-> order,
         configurationOpen |-> open, storage |-> st3, pages |-> << >>,
         forms |-> SyncForms(list, NoWiki), error |-> "", loading |-> FALSE,
         ops |-> << >>, settled |-> Settled("none", "none")]

\* setup() on wiki list list and store contents st: what it leaves in the
\* state, in the forms, in the store and in flight
Setup(list, st, works) ==
    LET sel   == LoadSelectedWikiId(list, st, works)
        order == LoadSortOrder(st, works)
        open  == LoadConfigurationOpen(st, works)
        st1   == PersistConfigurationOpen(st, works, open)
        st2   == PersistSelectedWikiId(st1, works, sel)
        st3   == PersistSortOrder(st2, works, order)
    IN  [wikis |-> list, selectedWikiId |-> sel, sortOrder |-> order,
         configurationOpen |-> open, storage |-> st3, pages |-> << >>,
         forms |-> SyncForms(list, sel), error |-> "", loading |-> (sel # NoWiki),
         ops |-> IF sel = NoWiki THEN << >>
                 ELSE << Op("loadPending", "pending", sel, FALSE, << >>, NoPayload) >>,
         settled |-> IF sel = NoWiki THEN Settled("loadPending", "fulfilled")
                     ELSE Settled("none", "none")]

InitFrom(list, st, works) ==
    LET s == Setup(list, st, works)
    IN  /\ wikis = s.wikis
        /\ selectedWikiId = s.selectedWikiId
        /\ sortOrder = s.sortOrder
        /\ configurationOpen = s.configurationOpen
        /\ storage = s.storage
        /\ storageWorks = works
        /\ pages = s.pages
        /\ forms = s.forms
        /\ error = s.error
        /\ loading = s.loading
        /\ ops = s.ops
        /\ settled = s.settled
        /\ session = 0

\* a first visit (nothing stored), with or without configured wikis
Init == \E list \in {<< >>, InitialWikis} : InitFrom(list, EmptyStorage, TRUE)

(***************************************************************************)
(* The user changes the selection: the selectedWikiId watcher persists it, *)
(* the currentWiki watcher runs syncForms() and loadPending().             *)
(***************************************************************************)
SelectWiki(w) ==
    /\ Len(ops) < MaxOps
    /\ w # selectedWikiId
    /\ WikiIndex(wikis, w) # 0
    /\ selectedWikiId' = w
    /\ storage' = PersistSelectedWikiId(storage, storageWorks, w)
    /\ forms' = SyncForms(wikis, w)
    /\ loading' = TRUE
    /\ error' = ""
    /\ ops' = Append(ops, Op("loadPending", "pending", w, FALSE, << >>, NoPayload))
    /\ UNCHANGED <<wikis, sortOrder, pages, configurationOpen, storageWorks, session, settled>>

(***************************************************************************)
(* loadPending, from the settling of its pending request on.               *)
(***************************************************************************)
\* the promise that settles last when the loadPending of ops[i] returns:
\* its own, or that of the refresh awaiting it
Returned(i) == IF ops[i].inRefresh THEN "refresh" ELSE "loadPending"

\* lines 225-232 once Promise.all has resolved with items: the guarded
\* commit, then finally (and the finally of a refresh awaiting it)
FinishLoadPending(i, items) ==
    /\ pages' \in IF StillSelected(ops[i].wikiId)
                  THEN SortPages(PagesWithRevisions(items), sortOrder)
                  ELSE {pages}
    /\ loading' = FALSE
    /\ ops' = Without(ops, i)
    /\ settled' = Settled(Returned(i), "fulfilled")

\* mutant: every settling writes what has arrived so far (no Promise.all)
AwaitAllEager(i, items) ==
    IF AllSettled(items)
    THEN FinishLoadPending(i, items)
    ELSE /\ ops' = [ops EXCEPT ![i].step = "revisions", ![i].items = items]
         /\ pages' \in IF StillSelected(ops[i].wikiId)
                       THEN SortPages(PagesWithRevisions(items), sortOrder)
                       ELSE {pages}
         /\ UNCHANGED <<loading, settled>>

\* what follows the settling of a revisions fetch, or of the pending
\* request: commit when nothing is outstanding, else keep waiting
AwaitAll(i, items) ==
    IF AllSettled(items)
    THEN FinishLoadPending(i, items)
    ELSE /\ ops' = [ops EXCEPT ![i].step = "revisions", ![i].items = items]
         /\ UNCHANGED <<pages, loading, settled>>

\* mutant: the per-page revisions fetches do not clear the error slot
PendingSucceedsKeepsError(i, answer) ==
    /\ ops[i].kind = "loadPending" /\ ops[i].step = "pending"
    /\ AwaitAll(i, ItemsOf(answer))
    /\ UNCHANGED <<wikis, selectedWikiId, sortOrder, error, configurationOpen, forms,
                   storage, storageWorks, session>>

PendingSucceeds(i, answer) ==
    /\ ops[i].kind = "loadPending" /\ ops[i].step = "pending"
    /\ LET items == ItemsOf(answer)
       IN  /\ AwaitAll(i, items)
           \* each fetchRevisionsForPage enters apiRequest, which clears error
           /\ error' = IF AllSettled(items) THEN error ELSE ""
    /\ UNCHANGED <<wikis, selectedWikiId, sortOrder, configurationOpen, forms,
                   storage, storageWorks, session>>

\* mutant: loading is reset after the try, not in a finally, so the failure
\* path leaves it on
PendingFailsKeepsLoading(i, f) ==
    /\ ops[i].kind = "loadPending" /\ ops[i].step = "pending"
    /\ error' = FailureMessage(f)
    /\ pages' = << >>
    /\ ops' = Without(ops, i)
    /\ settled' = Settled(Returned(i), "fulfilled")
    /\ UNCHANGED <<wikis, selectedWikiId, sortOrder, loading, configurationOpen, forms,
                   storage, storageWorks, session>>

\* apiRequest sets error and rethrows; catch and finally of loadPending
PendingFails(i, f) ==
    /\ ops[i].kind = "loadPending" /\ ops[i].step = "pending"
    /\ error' = FailureMessage(f)
    /\ pages' = << >>
    /\ loading' = FALSE
    /\ ops' = Without(ops, i)
    /\ settled' = Settled(Returned(i), "fulfilled")
    /\ UNCHANGED <<wikis, selectedWikiId, sortOrder, configurationOpen, forms,
                   storage, storageWorks, session>>

\* fetchRevisionsForPage returns data.revisions || []
RevisionsSucceed(i, k, revisions) ==
    /\ ops[i].kind = "loadPending" /\ ops[i].step = "revisions"
    /\ k \in 1..Len(ops[i].items)
    /\ ops[i].items[k].fetch = "waiting"
    /\ AwaitAll(i, [ops[i].items EXCEPT ![k].page.revisions = revisions,
                                        ![k].fetch = "fetched"])
    /\ UNCHANGED <<wikis, selectedWikiId, sortOrder, error, configurationOpen,
                   forms, storage, storageWorks, session>>

\* mutant: fetchRevisionsForPage does not catch, so Promise.all rejects and
\* the catch of loadPending empties pages
RevisionsFailAborts(i, k, f) ==
    /\ ops[i].kind = "loadPending" /\ ops[i].step = "revisions"
    /\ k \in 1..Len(ops[i].items)
    /\ ops[i].items[k].fetch = "waiting"
    /\ error' = FailureMessage(f)
    /\ pages' = << >>
    /\ loading' = FALSE
    /\ ops' = Without(ops, i)
    /\ settled' = Settled(Returned(i), "fulfilled")
    /\ UNCHANGED <<wikis, selectedWikiId, sortOrder, configurationOpen, forms,
                   storage, storageWorks, session>>

\* apiRequest sets error and rethrows; fetchRevisionsForPage returns []
RevisionsFail(i, k, f) ==
    /\ ops[i].kind = "loadPending" /\ ops[i].step = "revisions"
    /\ k \in 1..Len(ops[i].items)
    /\ ops[i].items[k].fetch = "waiting"
    /\ error' = FailureMessage(f)
    /\ AwaitAll(i, [ops[i].items EXCEPT ![k].page.revisions = << >>,
                                        ![k].fetch = "failed"])
    /\ UNCHANGED <<wikis, selectedWikiId, sortOrder, configurationOpen, forms,
                   storage, storageWorks, session>>

(***************************************************************************)
(* refresh.                                                                *)
(***************************************************************************)
Refresh ==
    IF selectedWikiId = NoWiki
    THEN /\ settled' = Settled("refresh", "fulfilled")
         /\ UNCHANGED <<wikis, selectedWikiId, sortOrder, pages, loading, error,
                        configurationOpen, forms, storage, storageWorks, session, ops>>
    ELSE /\ Len(ops) < MaxOps
         /\ loading' = TRUE
         /\ error' = ""
         /\ ops' = Append(ops, Op("refresh", "request", selectedWikiId, FALSE,
                                  << >>, NoPayload))
         /\ UNCHANGED <<wikis, selectedWikiId, sortOrder, pages, configurationOpen,
                        forms, storage, storageWorks, session, settled>>

\* the POST succeeded: refresh calls loadPending(), which reads the
\* selection of this moment
RefreshSucceeds(i) ==
    /\ ops[i].kind = "refresh"
    /\ IF selectedWikiId = NoWiki
       THEN /\ pages' = << >>
            /\ loading' = FALSE
            /\ ops' = Without(ops, i)
            /\ settled' = Settled("refresh", "fulfilled")
            /\ UNCHANGED error
       ELSE /\ loading' = TRUE
            /\ error' = ""
            /\ ops' = [ops EXCEPT ![i] = Op("loadPending", "pending", selectedWikiId,
                                            TRUE, << >>, NoPayload)]
            /\ UNCHANGED <<pages, settled>>
    /\ UNCHANGED <<wikis, selectedWikiId, sortOrder, configurationOpen, forms,
                   storage, storageWorks, session>>

\* the POST failed: apiRequest sets error and rethrows; refresh has finally
\* and no catch
RefreshFails(i, f) ==
    /\ ops[i].kind = "refresh"
    /\ error' = FailureMessage(f)
    /\ loading' = FALSE
    /\ ops' = Without(ops, i)
    /\ settled' = Settled("refresh", "rejected")
    /\ UNCHANGED <<wikis, selectedWikiId, sortOrder, pages, configurationOpen,
                   forms, storage, storageWorks, session>>

(***************************************************************************)
(* clearCache.                                                             *)
(***************************************************************************)
ClearCache ==
    IF selectedWikiId = NoWiki
    THEN /\ settled' = Settled("clearCache", "fulfilled")
         /\ UNCHANGED <<wikis, selectedWikiId, sortOrder, pages, loading, error,
                        configurationOpen, forms, storage, storageWorks, session, ops>>
    ELSE /\ Len(ops) < MaxOps
         /\ loading' = TRUE
         /\ error' = ""
         /\ ops' = Append(ops, Op("clearCache", "request", selectedWikiId, FALSE,
                                  << >>, NoPayload))
         /\ UNCHANGED <<wikis, selectedWikiId, sortOrder, pages, configurationOpen,
                        forms, storage, storageWorks, session, settled>>

\* mutant: pages is not emptied
ClearCacheSucceedsKeepsPages(i) ==
    /\ ops[i].kind = "clearCache"
    /\ loading' = FALSE
    /\ ops' = Without(ops, i)
    /\ settled' = Settled("clearCache", "fulfilled")
    /\ UNCHANGED <<wikis, selectedWikiId, sortOrder, pages, error, configurationOpen,
                   forms, storage, storageWorks, session>>

ClearCacheSucceeds(i) ==
    /\ ops[i].kind = "clearCache"
    /\ pages' = << >>
    /\ loading' = FALSE
    /\ ops' = Without(ops, i)
    /\ settled' = Settled("clearCache", "fulfilled")
    /\ UNCHANGED <<wikis, selectedWikiId, sortOrder, error, configurationOpen,
                   forms, storage, storageWorks, session>>

\* mutant: loading is reset after the request, not in a finally
ClearCacheFailsKeepsLoading(i, f) ==
    /\ ops[i].kind = "clearCache"
    /\ error' = FailureMessage(f)
    /\ ops' = Without(ops, i)
    /\ settled' = Settled("clearCache", "rejected")
    /\ UNCHANGED <<wikis, selectedWikiId, sortOrder, pages, loading,
                   configurationOpen, forms, storage, storageWorks, session>>

\* the POST failed: apiRequest sets error and rethrows; clearCache has
\* finally and no catch
ClearCacheFails(i, f) ==
    /\ ops[i].kind = "clearCache"
    /\ error' = FailureMessage(f)
    /\ loading' = FALSE
    /\ ops' = Without(ops, i)
    /\ settled' = Settled("clearCache", "rejected")
    /\ UNCHANGED <<wikis, selectedWikiId, sortOrder, pages, configurationOpen,
                   forms, storage, storageWorks, session>>

(***************************************************************************)
(* saveConfiguration, and the user typing into the two text blocks.        *)
(***************************************************************************)
\* texts the user may leave in a text block
FormTexts ==
    { << "A", NL, NL, "B", NL, SP, SP >> }

EditForm(field, text) ==
    /\ forms[field] # text
    /\ forms' = [forms EXCEPT ![field] = text]
    /\ UNCHANGED <<wikis, selectedWikiId, sortOrder, pages, loading, error,
                   configurationOpen, storage, storageWorks, session, ops, settled>>

SaveConfiguration ==
    IF selectedWikiId = NoWiki
    THEN /\ settled' = Settled("saveConfiguration", "fulfilled")
         /\ UNCHANGED <<wikis, selectedWikiId, sortOrder, pages, loading, error,
                        configurationOpen, forms, storage, storageWorks, session, ops>>
    ELSE /\ Len(ops) < MaxOps
         /\ error' = ""
         /\ ops' = Append(ops,
                Op("saveConfiguration", "request", selectedWikiId, FALSE, << >>,
                   [blocking_categories  |-> ParseTextarea(forms.blockingCategories),
                    auto_approved_groups |-> ParseTextarea(forms.autoApprovedGroups)]))
         /\ UNCHANGED <<wikis, selectedWikiId, sortOrder, pages, loading,
                        configurationOpen, forms, storage, storageWorks, session, settled>>

\* line 281: the wiki is looked up by the selection of this moment
SaveTarget(i) == WikiIndex(wikis, selectedWikiId)

SaveSucceeds(i, data) ==
    /\ ops[i].kind = "saveConfiguration"
    /\ LET wikiIndex == SaveTarget(i)
       IN  wikis' = IF wikiIndex > 0
                    THEN [wikis EXCEPT ![wikiIndex].configuration = data]
                    ELSE wikis
    /\ forms' = SyncForms(wikis', selectedWikiId)
    /\ ops' = Without(ops, i)
    /\ settled' = Settled("saveConfiguration", "fulfilled")
    /\ UNCHANGED <<selectedWikiId, sortOrder, pages, loading, error,
                   configurationOpen, storage, storageWorks, session>>

\* mutant: syncForms() runs in a finally, on the failure path too
SaveFailsResetsForms(i, f) ==
    /\ ops[i].kind = "saveConfiguration"
    /\ error' = FailureMessage(f)
    /\ forms' = SyncForms(wikis, selectedWikiId)
    /\ ops' = Without(ops, i)
    /\ settled' = Settled("saveConfiguration", "fulfilled")
    /\ UNCHANGED <<wikis, selectedWikiId, sortOrder, pages, loading,
                   configurationOpen, storage, storageWorks, session>>

\* apiRequest sets error and rethrows; the catch of saveConfiguration
SaveFails(i, f) ==
    /\ ops[i].kind = "saveConfiguration"
    /\ error' = FailureMessage(f)
    /\ ops' = Without(ops, i)
    /\ settled' = Settled("saveConfiguration", "fulfilled")
    /\ UNCHANGED <<wikis, selectedWikiId, sortOrder, pages, loading,
                   configurationOpen, forms, storage, storageWorks, session>>

(***************************************************************************)
(* The preferences: the sort order select, the configuration toggle, the   *)
(* store outside the page, and loading the page again.                     *)
(***************************************************************************)
SortOrders == {"newest", "oldest", "random"}

\* mutant: the sortOrder watcher persists the order and leaves pages alone
ChangeSortOrderKeepsPages(newValue) ==
    /\ newValue # sortOrder
    /\ sortOrder' = newValue
    /\ storage' = PersistSortOrder(storage, storageWorks, newValue)
    /\ UNCHANGED <<wikis, selectedWikiId, pages, loading, error, configurationOpen,
                   forms, storageWorks, session, ops, settled>>

\* the user picks another order: the sortOrder watcher re-sorts the held
\* pages and persists the order
ChangeSortOrder(newValue) ==
    /\ newValue # sortOrder
    /\ sortOrder' = newValue
    /\ pages' \in SortPages(pages, newValue)
    /\ storage' = PersistSortOrder(storage, storageWorks, newValue)
    /\ UNCHANGED <<wikis, selectedWikiId, loading, error, configurationOpen,
                   forms, storageWorks, session, ops, settled>>

\* toggleConfiguration(), and the configurationOpen watcher
ToggleConfiguration ==
    /\ configurationOpen' = ~configurationOpen
    /\ storage' = PersistConfigurationOpen(storage, storageWorks, configurationOpen')
    /\ UNCHANGED <<wikis, selectedWikiId, sortOrder, pages, loading, error,
                   forms, storageWorks, session, ops, settled>>

\* what the three keys may hold when the page is not the only writer of
\* localStorage (another tab, an older release, the user)
StoredValues(key) ==
    CASE key = selectedWikiStorageKey -> {NoItem, "1", "2", "2.0", "7", "", "abc"}
      [] key = sortOrderStorageKey    -> {NoItem, "newest", "oldest", "random", "bogus"}
      [] OTHER                        -> {NoItem, "true", "false", "yes"}

StorageContents == {st \in [StorageKeys -> UNION {StoredValues(key) : key \in StorageKeys}] :
                       \A key \in StorageKeys : st[key] \in StoredValues(key)}

\* something outside the page rewrites the store, or the browser starts or
\* stops refusing access to it
StorageChanges(st, works) ==
    /\ <<st, works>> # <<storage, storageWorks>>
    /\ storage' = st
    /\ storageWorks' = works
    /\ UNCHANGED <<wikis, selectedWikiId, sortOrder, pages, loading, error,
                   configurationOpen, forms, ops, settled, session>>

\* the page is loaded again: what was in flight is gone with the old page,
\* and setup() runs on the same wiki list and on the store as it is
Restart ==
    /\ session < MaxSessions
    /\ session' = session + 1
    /\ LET s == Setup(wikis, storage, storageWorks)
       IN  /\ wikis' = s.wikis
           /\ selectedWikiId' = s.selectedWikiId
           /\ sortOrder' = s.sortOrder
           /\ configurationOpen' = s.configurationOpen
           /\ storage' = s.storage
           /\ pages' = s.pages
           /\ forms' = s.forms
           /\ error' = s.error
           /\ loading' = s.loading
           /\ ops' = s.ops
           /\ settled' = s.settled
    /\ UNCHANGED storageWorks

(***************************************************************************)
(* Specifications.                                                         *)
(***************************************************************************)
WikiIds == {InitialWikis[k].id : k \in 1..Len(InitialWikis)}

\* the positions of the operations in flight
InFlight == 1..Len(ops)

\* Spec: the pending-set synchroniser.  The user switches wikis, refreshes
\* and clears the cache; every request may succeed with any answer or fail
\* in any way.
Next ==
    \/ \E w \in WikiIds : SelectWiki(w)
    \/ Refresh
    \/ ClearCache
    \/ \E i \in InFlight : \E answer \in PendingAnswers(ops[i].wikiId) :
          PendingSucceeds(i, answer)
    \/ \E i \in InFlight : \E f \in Failures : PendingFails(i, f)
    \/ \E i \in InFlight : \E k \in 1..Len(ops[i].items) :
          \E r \in RevisionsAnswers(ops[i].items[k].page.pageid) :
              RevisionsSucceed(i, k, r)
    \/ \E i \in InFlight : \E k \in 1..Len(ops[i].items) : \E f \in Failures :
          RevisionsFail(i, k, f)
    \/ \E i \in InFlight : RefreshSucceeds(i)
    \/ \E i \in InFlight : \E f \in Failures : RefreshFails(i, f)
    \/ \E i \in InFlight : ClearCacheSucceeds(i)
    \/ \E i \in InFlight : \E f \in Failures : ClearCacheFails(i, f)

Spec == Init /\ [][Next]_vars

\* SpecBackfill: the same user, and a backend on which nothing but a
\* per-page revisions fetch ever fails.
NextBackfill ==
    \/ \E w \in WikiIds : SelectWiki(w)
    \/ Refresh
    \/ ClearCache
    \/ \E i \in InFlight : \E answer \in PendingAnswers(ops[i].wikiId) :
          PendingSucceeds(i, answer)
    \/ \E i \in InFlight : \E k \in 1..Len(ops[i].items) :
          \E r \in RevisionsAnswers(ops[i].items[k].page.pageid) :
              RevisionsSucceed(i, k, r)
    \/ \E i \in InFlight : \E k \in 1..Len(ops[i].items) : \E f \in Failures :
          RevisionsFail(i, k, f)
    \/ \E i \in InFlight : RefreshSucceeds(i)
    \/ \E i \in InFlight : ClearCacheSucceeds(i)

SpecBackfill == Init /\ [][NextBackfill]_vars

\* SpecConfig: the configuration form.  The user edits the two text
\* blocks, saves and switches wikis; the wikis have no pending pages, and
\* only the configuration PUT fails (the backend rejects it with a message).
SaveFailures == { Failure("http", "", "Bad Request", "Invalid configuration") }

InitConfig == InitFrom(InitialWikis, EmptyStorage, TRUE)

NextConfig ==
    \/ \E w \in WikiIds : SelectWiki(w)
    \/ \E field \in {"blockingCategories", "autoApprovedGroups"} :
          \E text \in FormTexts : EditForm(field, text)
    \/ SaveConfiguration
    \/ \E i \in InFlight : PendingSucceeds(i, << >>)
    \/ \E i \in InFlight : \E data \in ConfigurationAnswers(ops[i].payload) :
          SaveSucceeds(i, data)
    \/ \E i \in InFlight : \E f \in SaveFailures : SaveFails(i, f)

SpecConfig == InitConfig /\ [][NextConfig]_vars

\* SpecPrefs: restoring the preferences.  The page starts on any of the
\* wiki lists and any store contents, with the store readable or throwing;
\* the store is rewritten from outside and the page is loaded again.
WikiLists ==
    { InitialWikis,
      << InitialWikis[2] >>,
      << InitialWikis[2], InitialWikis[1] >> }

InitPrefs ==
    \E list \in WikiLists : \E st \in StorageContents : \E works \in BOOLEAN :
        InitFrom(list, st, works)

NextPrefs ==
    \/ \E key \in StorageKeys : \E value \in StoredValues(key) : \E works \in BOOLEAN :
          StorageChanges([storage EXCEPT ![key] = value], works)
    \/ Restart
    \/ \E i \in InFlight : PendingSucceeds(i, << >>)

SpecPrefs == InitPrefs /\ [][NextPrefs]_vars

\* SpecSessions: preferences across page loads.  The store works and only
\* the page writes to it; the user switches wikis, picks sort orders,
\* toggles the configuration panel and loads the page again.
InitSessions ==
    \E st \in StorageContents : InitFrom(InitialWikis, st, TRUE)

NextSessions ==
    \/ \E w \in WikiIds : SelectWiki(w)
    \/ \E order \in SortOrders : ChangeSortOrder(order)
    \/ ToggleConfiguration
    \/ Restart
    \/ \E i \in InFlight : PendingSucceeds(i, << >>)

SpecSessions == InitSessions /\ [][NextSessions]_vars

\* SpecSort: the sort engine at work.  Every pending answer comes with its
\* revisions; one has pages of equal, absent and unreadable pending_since,
\* one has three different dates.  The user picks sort orders, switches
\* wikis and refreshes; no request fails.
SortAnswers(w) ==
    { << PendingPage(w, 1, "2024-02-10", <<"r1">>),
         PendingPage(w, 2, Absent,       <<"r2">>),
         PendingPage(w, 3, "2024-02-10", <<"r3">>),
         PendingPage(w, 4, "not-a-date", <<"r4">>) >>,
      << PendingPage(w, 1, "2024-03-01", <<"r1">>),
         PendingPage(w, 2, "2024-01-15", <<"r2">>),
         PendingPage(w, 3, "2024-02-10", <<"r3">>) >> }

NextSort ==
    \/ \E order \in SortOrders : ChangeSortOrder(order)
    \/ \E w \in WikiIds : SelectWiki(w)
    \/ Refresh
    \/ \E i \in InFlight : RefreshSucceeds(i)
    \/ \E i \in InFlight : \E answer \in SortAnswers(ops[i].wikiId) :
          PendingSucceeds(i, answer)

SpecSort == InitConfig /\ [][NextSort]_vars

\* SpecRace: two syncs for one wiki.  Wiki 1 stays selected; next to the
\* startup sync, the only sync that is not part of a refresh and so the
\* first one issued, the user refreshes, and each refresh issues a sync of
\* its own.  No request fails.
NextRace ==
    \/ Refresh
    \/ \E i \in InFlight : RefreshSucceeds(i)
    \/ \E i \in InFlight : \E answer \in PendingAnswers(ops[i].wikiId) :
          PendingSucceeds(i, answer)
    \/ \E i \in InFlight : \E k \in 1..Len(ops[i].items) :
          \E r \in RevisionsAnswers(ops[i].items[k].page.pageid) :
              RevisionsSucceed(i, k, r)

SpecRace == InitConfig /\ [][NextRace]_vars

\* SpecLive: a network that answers.  The user switches wikis, refreshes
\* and clears the cache; a pending answer has a page that comes with its
\* revisions or a page that needs them fetched; a request fails by the
\* network or succeeds.  The request the operation at position i waits for
\* is answered in the end, one way or the other.
LiveAnswers(w) ==
    { << PendingPage(w, 3, "2024-02-10", <<"r3">>) >>,
      << PendingPage(w, 2, "2024-03-01", << >>) >> }

LiveFailures == { Failure("network", "Failed to fetch", "", "") }

Answered(i) ==
    \/ \E answer \in LiveAnswers(ops[i].wikiId) : PendingSucceeds(i, answer)
    \/ \E f \in LiveFailures : PendingFails(i, f)
    \/ \E k \in 1..Len(ops[i].items) : RevisionsSucceed(i, k, <<"r2">>)
    \/ \E k \in 1..Len(ops[i].items) : \E f \in LiveFailures : RevisionsFail(i, k, f)
    \/ RefreshSucceeds(i)
    \/ \E f \in LiveFailures : RefreshFails(i, f)
    \/ ClearCacheSucceeds(i)
    \/ \E f \in LiveFailures : ClearCacheFails(i, f)

NextLive ==
    \/ \E w \in WikiIds : SelectWiki(w)
    \/ Refresh
    \/ ClearCache
    \/ \E i \in InFlight : Answered(i)

SpecLive ==
    /\ InitConfig
    /\ [][NextLive]_vars
    /\ \A i \in 1..MaxOps : WF_vars(i \in InFlight /\ Answered(i))

(***************************************************************************)
(* Properties.                                                             *)
(***************************************************************************)
\* in this step the operation ops[i] has ended
Ended(i) == ops' = Without(ops, i)

\* in this step the operation ops[i] has ended or moved on to another request
Moved(i) == Ended(i) \/ (Len(ops') = Len(ops) /\ ops'[i] # ops[i])

IsLoadPending(op) == op.kind = "loadPending"

\* C1: a page that a step newly writes into pages is a page of the wiki
\* that is selected at that moment; a list fetched for a wiki that is no
\* longer selected when its fetches resolve is not written.
C1_CommitOnlyForSelectedWiki ==
    [][\A k \in 1..Len(pages') :
          (\A j \in 1..Len(pages) : pages[j] # pages'[k])
              => pages'[k].wiki = selectedWikiId']_vars

\* wiki 2 is selected and its sync still awaits its answer, yet loading is
\* off, nothing failed and pages still holds pages of wiki 1: a sync for
\* wiki 1 has resolved after the switch and was not written
C1_Witness ==
    /\ selectedWikiId = 2
    /\ ops = << Op("loadPending", "pending", 2, FALSE, << >>, NoPayload) >>
    /\ ~loading
    /\ error = ""
    /\ settled = Settled("loadPending", "fulfilled")
    /\ pages # << >>
    /\ \A k \in 1..Len(pages) : pages[k].wiki = 1

\* C2: when a sync whose wiki is no longer the selected one ends, with its
\* fetches succeeded or failed, pages and error are as before; of the shared
\* state it writes loading only.
C2_StaleSyncEndsSilently ==
    [][\A i \in 1..Len(ops) :
          (IsLoadPending(ops[i]) /\ ops[i].wikiId # selectedWikiId /\ Ended(i))
              => UNCHANGED <<wikis, selectedWikiId, sortOrder, pages, error,
                             configurationOpen, forms, storage>>]_vars

\* C3: whenever no sync, refresh or clearCache is in flight, loading is
\* false.
C3_IdleMeansNotLoading ==
    (\A i \in 1..Len(ops) : ops[i].kind \notin {"loadPending", "refresh", "clearCache"})
        => ~loading

\* nothing is in flight after a clearCache has ended on its failure path
C3_Witness ==
    /\ ops = << >>
    /\ ~loading
    /\ error # ""
    /\ settled = Settled("clearCache", "rejected")

\* a refresh is in flight: it awaits its POST or the loadPending it called
RefreshInFlight ==
    \E i \in 1..Len(ops) :
        ops[i].kind = "refresh" \/ (IsLoadPending(ops[i]) /\ ops[i].inRefresh)

\* C4: while a refresh is in flight (from its start until the sync that
\* follows its reindex request ends), loading is true.
C4_LoadingThroughoutRefresh == RefreshInFlight => loading

\* C5: the step in which the request of a clearCache is answered ends the
\* clearCache without issuing a further request, and when it succeeded
\* pages is empty afterwards; a clearCache called with the empty wiki id
\* issues no request and changes nothing.
C5_ClearCacheEmptiesPages ==
    [][/\ \A i \in 1..Len(ops) :
             (ops[i].kind = "clearCache" /\ Moved(i))
                 => /\ Ended(i)
                    /\ settled'.how = "fulfilled" => pages' = << >>
       /\ (selectedWikiId = NoWiki /\ settled'.kind = "clearCache")
             => UNCHANGED <<wikis, selectedWikiId, sortOrder, pages, loading, error,
                            configurationOpen, forms, storage, ops>>]_vars

\* a clearCache has succeeded while a sync, started before it, still waits
\* for revisions: pages is empty and no new request has been issued
C5_Witness ==
    /\ settled = Settled("clearCache", "fulfilled")
    /\ selectedWikiId # NoWiki
    /\ pages = << >>
    /\ ~loading
    /\ Len(ops) = 1
    /\ IsLoadPending(ops[1]) /\ ops[1].step = "revisions"

\* C6: no asynchronous operation ends with its promise rejected.
C6_NoOperationRejects == settled.how # "rejected"

\* C7: when a sync ends in which a per-page revisions fetch has failed, the
\* error slot is empty (SpecBackfill: no other request ever fails).
C7_BackfillFailureNotSurfaced ==
    [][\A i \in 1..Len(ops) :
          ( /\ IsLoadPending(ops[i]) /\ Ended(i)
            /\ \E k \in 1..Len(ops[i].items) : ops[i].items[k].fetch = "failed" )
              => error' = ""]_vars

\* the revisions a settled item contributes to the committed list
SettledRevisions(item) == IF item.fetch = "failed" THEN << >> ELSE item.page.revisions

\* C8: a sync whose wiki is still selected and which has reached its
\* revisions fetches commits every page of the pending answer, whichever of
\* the fetches failed: a page whose fetch failed with empty revisions, a
\* page whose fetch succeeded with the fetched revisions, a page that came
\* with revisions with those; and a fetch is issued exactly for the pages
\* that came without revisions.
C8_BackfillFailureKeepsBatch ==
    [][\A i \in 1..Len(ops) :
          /\ ( /\ IsLoadPending(ops[i]) /\ ops[i].step = "revisions"
               /\ ops[i].wikiId = selectedWikiId /\ Ended(i) )
                => LET items == ops[i].items
                   IN  /\ Len(pages') = Len(items)
                       /\ \A k \in 1..Len(items) : \E j \in 1..Len(pages') :
                            /\ pages'[j].pageid = items[k].page.pageid
                            /\ pages'[j].wiki = items[k].page.wiki
                            /\ pages'[j].pending_since = items[k].page.pending_since
                            /\ IF items[k].fetch = "waiting"
                               THEN /\ pages'[j].revisions \in
                                         RevisionsAnswers(items[k].page.pageid) \cup {<< >>}
                                    /\ error' # error => pages'[j].revisions = << >>
                               ELSE pages'[j].revisions = SettledRevisions(items[k])
          /\ ( /\ IsLoadPending(ops[i]) /\ ops[i].step = "pending"
               /\ Len(ops') = Len(ops) /\ ops'[i].step = "revisions" )
                => \A k \in 1..Len(ops'[i].items) :
                      /\ ops'[i].items[k].fetch \in {"waiting", "none"}
                      /\ ops'[i].items[k].fetch = "waiting"
                            <=> ops'[i].items[k].page.revisions = << >>]_vars

\* a committed list of three pages: the first without revisions while an
\* error is shown (its fetch failed), the second with fetched revisions, the
\* third with the revisions it came with
C8_Witness ==
    /\ ops = << >>
    /\ error # ""
    /\ settled = Settled("loadPending", "fulfilled")
    /\ Len(pages) = 3
    /\ \E a, b, c \in 1..3 :
          /\ pages[a].pageid = 1 /\ pages[a].revisions = << >>
          /\ pages[b].pageid = 2 /\ pages[b].revisions = << "r2" >>
          /\ pages[c].pageid = 3 /\ pages[c].revisions = << "r3" >>

\* C9: a step after which a sync still has a revisions fetch outstanding
\* leaves pages as it was: nothing is committed before the last fetch of
\* the run has settled.
C9_NoPartialCommit ==
    [][\A i \in 1..Len(ops) :
          ( /\ Len(ops') = Len(ops) /\ ops'[i] # ops[i]
            /\ IsLoadPending(ops'[i]) /\ ops'[i].step = "revisions"
            /\ ~AllSettled(ops'[i].items) )
              => pages' = pages]_vars

\* the only sync in flight has one revisions fetch settled and one
\* outstanding, and pages holds nothing yet
C9_Witness ==
    /\ Len(ops) = 1
    /\ IsLoadPending(ops[1]) /\ ops[1].step = "revisions"
    /\ \E k \in 1..Len(ops[1].items) : ops[1].items[k].fetch = "fetched"
    /\ \E k \in 1..Len(ops[1].items) : ops[1].items[k].fetch = "waiting"
    /\ ops[1].wikiId = selectedWikiId
    /\ pages = << >>

\* C10: when a configuration save ends, the configuration of every wiki
\* other than the one it was issued for is as before, and when it succeeded
\* the configuration of that wiki is the one the backend answered.
C10_SaveReplacesItsOwnWiki ==
    [][\A i \in 1..Len(ops) :
          (ops[i].kind = "saveConfiguration" /\ Ended(i))
              => LET w == WikiIndex(wikis, ops[i].wikiId)
                 IN  /\ \A k \in 1..Len(wikis) : k # w => wikis'[k] = wikis[k]
                     /\ error' = "" => wikis'[w].configuration
                                          \in ConfigurationAnswers(ops[i].payload)]_vars

\* the messages a failing configuration PUT leaves in the error slot
SaveFailureMessages == {FailureMessage(f) : f \in SaveFailures}

FreshSync(w) == Op("loadPending", "pending", w, FALSE, << >>, NoPayload)

\* C12: with a non-empty wiki list the page starts with a wiki selected,
\* the text blocks filled from that wiki and a sync for it in flight, no
\* user action needed; and every step that changes the selected wiki fills
\* the text blocks from the newly selected wiki and starts a sync for it.
C12_SelectionTriggerIsLevelSensitive ==
    /\ wikis # << >>
          => /\ WikiIndex(wikis, selectedWikiId) # 0
             /\ forms = SyncForms(wikis, selectedWikiId)
             /\ ops = << FreshSync(selectedWikiId) >>
             /\ loading
    /\ [][selectedWikiId' # selectedWikiId
            => /\ forms' = SyncForms(wikis', selectedWikiId')
               /\ ops' = Append(ops, FreshSync(selectedWikiId'))
               /\ loading']_vars

\* the startup sync for wiki 1 is still in flight when the user has moved
\* to wiki 2: the text blocks show wiki 2 and a sync for it has started
C12_Witness ==
    /\ selectedWikiId = 2
    /\ ops = << FreshSync(1), FreshSync(2) >>
    /\ forms = SyncForms(wikis, 2)
    /\ forms # SyncForms(wikis, 1)
    /\ settled = Settled("none", "none")

\* C13: a step that changes the selected wiki leaves pages empty, and so a
\* page held in pages is always a page of the wiki that is selected.
C13_SelectionChangeClearsPages ==
    /\ [][selectedWikiId' # selectedWikiId => pages' = << >>]_vars
    /\ [](\A k \in 1..Len(pages) : pages[k].wiki = selectedWikiId)

\* what getItem answers for key, null when the store throws
Stored(key) == IF storageWorks THEN storage[key] ELSE NoItem

\* the wiki at position k has the id the stored text names: the text reads
\* as a number and the id is that number
NamedByStore(k) ==
    /\ Stored(selectedWikiStorageKey) # NoItem
    /\ ~ToNumber(Stored(selectedWikiStorageKey)).nan
    /\ wikis[k].id = ToNumber(Stored(selectedWikiStorageKey)).num

\* C14: the page always runs with a valid selection and sort order and
\* starts without an error, and a page load restores from the store as it
\* finds it (SpecPrefs: any key missing, unrecognised, naming no wiki, or
\* the store throwing): the selected wiki is the wiki of the list whose id
\* the stored value names, the first wiki when there is none; the sort
\* order is the stored one when that is newest, oldest or random, newest
\* otherwise; the error slot is empty.
C14_RestoredPreferencesValid ==
    /\ error = ""
    /\ [](/\ WikiIndex(wikis, selectedWikiId) # 0
          /\ sortOrder \in SortOrders)
    /\ [][session' # session
            => /\ error' = ""
               /\ wikis' = wikis
               /\ \A k \in 1..Len(wikis) :
                     NamedByStore(k) => selectedWikiId' = wikis[k].id
               /\ (\A k \in 1..Len(wikis) : ~NamedByStore(k))
                     => selectedWikiId' = wikis[1].id
               /\ sortOrder' = IF Stored(sortOrderStorageKey) \in SortOrders
                                THEN Stored(sortOrderStorageKey)
                                ELSE "newest"]_vars

\* the page has been loaded again while the store throws on every access
\* and holds an id of no wiki and an unknown order: the first wiki and
\* newest are in force and the startup sync is in flight
C14_Witness ==
    /\ session > 0
    /\ ~storageWorks
    /\ storage[selectedWikiStorageKey] = "7"
    /\ storage[sortOrderStorageKey] = "bogus"
    /\ selectedWikiId = wikis[1].id
    /\ sortOrder = "newest"
    /\ ops = << FreshSync(selectedWikiId) >>
    /\ error = ""

\* C15: with a working store that only the page writes, loading the page
\* again leaves the selected wiki, the sort order and the panel state as
\* the user last left them.
C15_PreferencesSurviveRestart ==
    [][session' # session
          => /\ selectedWikiId' = selectedWikiId
             /\ sortOrder' = sortOrder
             /\ configurationOpen' = configurationOpen]_vars

\* a freshly loaded page (nothing has settled yet, only the startup sync is
\* in flight) that came up on wiki 2, in random order, with the panel open:
\* none of them is what a first visit starts with
C15_Witness ==
    /\ session > 0
    /\ storageWorks
    /\ selectedWikiId = 2
    /\ sortOrder = "random"
    /\ configurationOpen
    /\ ops = << FreshSync(2) >>
    /\ settled = Settled("none", "none")
    /\ storage[selectedWikiStorageKey] = "2"

\* the derived pending timestamp the spec gives a page: the time of its
\* pending_since, 0 when that is absent or no date
DerivedTimestamp(page) ==
    IF page.pending_since \in {"2024-01-15", "2024-02-10", "2024-03-01"}
    THEN DateGetTime(page.pending_since).time
    ELSE 0

\* the position of page in list
PositionIn(list, page) == CHOOSE j \in 1..Len(list) : list[j] = page

IsPermutationOf(result, list) ==
    /\ Len(result) = Len(list)
    /\ \A k \in 1..Len(list) : \E j \in 1..Len(result) : result[j] = list[k]

Reversed(list) == [k \in 1..Len(list) |-> list[Len(list) + 1 - k]]

\* list runs by derived timestamp: upwards for oldest, downwards for any
\* other order
OrderedBy(list, order) ==
    \A a, b \in 1..Len(list) :
        a < b => IF order = "oldest"
                 THEN DerivedTimestamp(list[a]) <= DerivedTimestamp(list[b])
                 ELSE DerivedTimestamp(list[a]) >= DerivedTimestamp(list[b])

\* C16: for the page list held in any reachable state (under the random
\* order: any permutation of an answer) and every order but random, known
\* or not, what sortPages returns is a permutation of the list, runs by
\* derived timestamp (upwards for oldest, downwards otherwise) and keeps
\* pages of equal timestamp in the order they had; and when no two
\* timestamps are equal the result for oldest is the reverse of the result
\* for newest.
C16_SortIsStableOrdering ==
    /\ \A order \in {"newest", "oldest", "bogus"} : \A result \in SortPages(pages, order) :
          /\ IsPermutationOf(result, pages)
          /\ OrderedBy(result, order)
          /\ \A a, b \in 1..Len(pages) :
                (a < b /\ DerivedTimestamp(pages[a]) = DerivedTimestamp(pages[b]))
                    => PositionIn(result, pages[a]) < PositionIn(result, pages[b])
    /\ (\A a, b \in 1..Len(pages) :
            a # b => DerivedTimestamp(pages[a]) # DerivedTimestamp(pages[b]))
          => \A old \in SortPages(pages, "oldest") : \A new \in SortPages(pages, "newest") :
                old = Reversed(new)

\* a shuffled list is held in which two pages of equal timestamp stand
\* against their page numbers and which neither order would leave as it is
C16_Witness ==
    /\ sortOrder = "random"
    /\ Len(pages) = 4
    /\ \E a, b \in 1..Len(pages) :
          /\ a < b
          /\ DerivedTimestamp(pages[a]) = DerivedTimestamp(pages[b])
          /\ pages[a].pageid > pages[b].pageid
    /\ ~OrderedBy(pages, "oldest")
    /\ ~OrderedBy(pages, "newest")

\* C17: whenever the sort order is newest or oldest, pages runs by derived
\* timestamp in that order (downwards for newest, upwards for oldest),
\* whatever the order was when the sync that fetched them started; and a
\* step that changes the sort order rearranges the pages held, issues no
\* request and starts or ends no operation.
C17_PagesFollowSortOrder ==
    /\ [](sortOrder \in {"newest", "oldest"} => OrderedBy(pages, sortOrder))
    /\ [][sortOrder' # sortOrder
            => /\ IsPermutationOf(pages', pages)
               /\ ops' = ops
               /\ loading' = loading
               /\ error' = error]_vars

\* four pages are held oldest first, which is not how newest would have
\* them, and a sync is in flight that will have to follow the order too
C17_Witness ==
    /\ sortOrder = "oldest"
    /\ Len(pages) = 4
    /\ OrderedBy(pages, "oldest")
    /\ ~OrderedBy(pages, "newest")
    /\ Len(ops) = 1
    /\ ops[1] = FreshSync(selectedWikiId)

\* in this step the operation ops[i] has issued a request: refresh has
\* gone on to its loadPending, or loadPending to its revisions fetches
IssuedNext(i) ==
    /\ Len(ops') = Len(ops)
    /\ ops'[i] # ops[i]
    /\ \/ ops[i].kind = "refresh" /\ ops'[i].kind = "loadPending"
       \/ /\ ops[i].step = "pending" /\ ops'[i].step = "revisions"
          /\ \E k \in 1..Len(ops'[i].items) : ops'[i].items[k].fetch = "waiting"

\* what a step shows when the request ops[i] awaited has failed
LooksFailed(i) ==
    \/ /\ ops[i].kind \in {"refresh", "clearCache"}
       /\ Ended(i) /\ settled'.how = "rejected"
    \/ /\ IsLoadPending(ops[i]) /\ ops[i].step = "pending"
       /\ Ended(i) /\ pages' = << >>
    \/ /\ IsLoadPending(ops[i]) /\ ops[i].step = "revisions"
       /\ \E k \in 1..Len(ops[i].items) :
             /\ ops[i].items[k].fetch = "waiting"
             /\ \/ Len(ops') = Len(ops) /\ ops'[i].items[k].fetch = "failed"
                \/ /\ Ended(i)
                   /\ \/ ops[i].wikiId # selectedWikiId
                      \/ \E j \in 1..Len(pages') :
                            /\ pages'[j].pageid = ops[i].items[k].page.pageid
                            /\ pages'[j].revisions = << >>
    \/ /\ ops[i].kind = "saveConfiguration"
       /\ Ended(i) /\ wikis' = wikis /\ forms' = forms

\* C18: a step in which a request is issued (an operation starts, a refresh
\* goes on to its sync, a sync goes on to its revisions fetches) leaves the
\* error slot empty; and a step that takes the error slot from empty to
\* non-empty is a step in which a request in flight has failed, the slot
\* then holding a failure message.
C18_ErrorClearedOnCallSetOnFailure ==
    [][/\ (Len(ops') > Len(ops) \/ \E i \in 1..Len(ops) : IssuedNext(i))
             => error' = ""
       /\ (error = "" /\ error' # "")
             => /\ error' \in {FailureMessage(f) : f \in Failures \cup SaveFailures}
                /\ Len(ops') <= Len(ops)
                /\ \E i \in 1..Len(ops) : LooksFailed(i)]_vars

\* a refresh has failed, which left its message in the error slot, and a
\* sync has since gone on to its revisions fetches: the slot is empty again
C18_Witness ==
    /\ settled = Settled("refresh", "rejected")
    /\ error = ""
    /\ ops # << >>
    /\ \A i \in 1..Len(ops) : IsLoadPending(ops[i]) /\ ops[i].step = "revisions"

\* list holds one page for each item of items, and no other
HoldsPagesOf(list, items) ==
    /\ Len(list) = Len(items)
    /\ \A k \in 1..Len(items) : \E j \in 1..Len(list) :
          /\ list[j].pageid = items[k].page.pageid
          /\ list[j].wiki = items[k].page.wiki
          /\ list[j].pending_since = items[k].page.pending_since

\* C19: whether a sync commits depends on nothing but its captured wiki id
\* being the selected one.  A sync that ends after its revisions fetches
\* writes its own page list into pages when its wiki is selected, also when
\* another sync for the same wiki is in flight, was issued after it, or has
\* already committed; so of two syncs for one wiki the one that ends last
\* decides pages, and that can be the one issued first.
C19_GuardComparesOnlyIds ==
    [][\A i \in 1..Len(ops) :
          ( /\ IsLoadPending(ops[i]) /\ ops[i].step = "revisions" /\ Ended(i) )
              => IF ops[i].wikiId = selectedWikiId
                 THEN HoldsPagesOf(pages', ops[i].items)
                 ELSE pages' = pages]_vars

\* the startup sync, issued first, is still waiting for revisions of the
\* three pages it was answered, while the sync of a refresh, issued after
\* it, has ended and committed a different list: pages holds that list
\* until the startup sync ends and replaces it
C19_Witness ==
    /\ Len(ops) = 1
    /\ IsLoadPending(ops[1]) /\ ~ops[1].inRefresh /\ ops[1].step = "revisions"
    /\ ops[1].wikiId = selectedWikiId
    /\ Len(ops[1].items) = 3
    /\ settled = Settled("refresh", "fulfilled")
    /\ Len(pages) = 1
    /\ pages[1].wiki = selectedWikiId

\* C20: on a network that answers every request (SpecLive), once the user
\* starts no further operation every sync, refresh and clearCache in flight
\* ends, and from then on nothing is in flight and loading is false; and
\* loading goes off only in a step in which an operation ends, so nothing
\* but an answer turns it off: there is no timeout.
C20_LoadingEventuallyReset ==
    /\ (<>[][Len(ops') <= Len(ops)]_vars) => <>[](ops = << >> /\ ~loading)
    /\ [][(loading /\ ~loading') => \E i \in 1..Len(ops) : Ended(i)]_vars

\* everything has ended, last of all a refresh with the sync it called, and
\* loading is off while pages are shown
C20_Witness ==
    /\ ops = << >>
    /\ ~loading
    /\ settled = Settled("refresh", "fulfilled")
    /\ pages # << >>

====
